---------------------------- MODULE Spec2Model ----------------------------
(***************************************************************************)
(* pydeface: the defacing pipeline of src/pydeface/__main__.py.            *)
(*                                                                         *)
(* deface_image registers a template to the subject (FLIRT, step A), warps *)
(* the face mask with the estimated matrix (step B), multiplies the        *)
(* subject by the warped mask and saves the product; main then applies the *)
(* returned mask to the --applyto images.                                  *)
(*                                                                         *)
(* Arrays are numpy arrays: a shape (a sequence of extents) and a function *)
(* from 0-based index tuples to integers.  Multiplication broadcasts the   *)
(* way numpy does; a shape mismatch is numpy's ValueError.                 *)
(***************************************************************************)
EXTENDS Integers, Sequences, FiniteSets

\* Bounds of the model.
MaxExt == 2        \* spatial extents X, Y, Z range over 1..MaxExt
MaxT == 3          \* the trailing (time) extent ranges over 1..MaxT
MaxZero == 2       \* the mask zeroes its first 0..MaxZero voxels
NumNames == 8      \* names mkstemp can draw in the temporary directory
NumFiles == 2      \* distinct --applyto paths
MaxApply == 2      \* longest --applyto list

-----------------------------------------------------------------------------
(***************************************************************************)
(* numpy arrays                                                            *)
(***************************************************************************)

Max(a, b) == IF a >= b THEN a ELSE b

RECURSIVE Indices(_)
\* every index tuple of an array of the given shape (rank 0: the one empty tuple)
Indices(shape) ==
    IF shape = <<>> THEN { <<>> }
    ELSE { <<i>> \o rest : i \in 0..(Head(shape) - 1), rest \in Indices(Tail(shape)) }

RECURSIVE Lin(_, _)
\* row-major (C order) position of an index tuple
Lin(idx, shape) ==
    IF shape = <<>> THEN 0
    ELSE LET n == Len(shape)
         IN  Lin(SubSeq(idx, 1, n - 1), SubSeq(shape, 1, n - 1)) * shape[n] + idx[n]

\* the placeholder of a local that holds no array yet
NoArray == [shape |-> <<>>, data |-> [idx \in {} |-> 0]]

\* ndarray.squeeze(): every axis of extent 1 is dropped (not only the last)
SqueezeShape(shape) == SelectSeq(shape, LAMBDA d : d # 1)

\* how many axes of extent # 1 lie in shape[1..k]
RECURSIVE KeptUpTo(_, _)
KeptUpTo(shape, k) ==
    IF k = 0 THEN 0
    ELSE KeptUpTo(shape, k - 1) + (IF shape[k] # 1 THEN 1 ELSE 0)

Squeeze(a) ==
    LET s == SqueezeShape(a.shape)
    IN  [shape |-> s,
         data  |-> [idx \in Indices(s) |->
                      a.data[[k \in 1..Len(a.shape) |->
                                 IF a.shape[k] = 1 THEN 0
                                 ELSE idx[KeptUpTo(a.shape, k)]]]]]

\* numpy's broadcasting rule: shapes are aligned at their last axis, and two
\* aligned extents must be equal or one of them 1
Extent(shape, k, n) ==
    LET off == n - Len(shape) IN IF k <= off THEN 1 ELSE shape[k - off]

BroadcastOK(s1, s2) ==
    LET n == Max(Len(s1), Len(s2))
    IN  \A k \in 1..n :
          \/ Extent(s1, k, n) = Extent(s2, k, n)
          \/ Extent(s1, k, n) = 1
          \/ Extent(s2, k, n) = 1

BroadcastShape(s1, s2) ==
    LET n == Max(Len(s1), Len(s2))
    IN  [k \in 1..n |-> Max(Extent(s1, k, n), Extent(s2, k, n))]

\* the index of an operand behind index idx of the broadcast result
Project(idx, shape) ==
    LET off == Len(idx) - Len(shape)
    IN  [k \in 1..Len(shape) |-> IF shape[k] = 1 THEN 0 ELSE idx[k + off]]

\* a * b for two arrays whose shapes broadcast
Times(a, b) ==
    LET s == BroadcastShape(a.shape, b.shape)
    IN  [shape |-> s,
         data  |-> [idx \in Indices(s) |->
                      a.data[Project(idx, a.shape)] * b.data[Project(idx, b.shape)]]]

\* np.stack([m] * n, axis=-1): n copies of m along a new last axis
Stack(m, n) ==
    LET s == Append(m.shape, n)
    IN  [shape |-> s,
         data  |-> [idx \in Indices(s) |-> m.data[SubSeq(idx, 1, Len(idx) - 1)]]]

Raised == [err |-> TRUE, arr |-> NoArray]
Value(a) == [err |-> FALSE, arr |-> a]

(***************************************************************************)
(* The two multiplications of the program                                  *)
(***************************************************************************)

\* deface_image, lines 76-83: the squeezed subject times the mask; on numpy's
\* ValueError the unsqueezed subject times the mask stacked shape[-1] times
DefaceMultiply(infile_data, mask_data) ==
    IF BroadcastOK(SqueezeShape(infile_data.shape), mask_data.shape)
    THEN Value(Times(Squeeze(infile_data), mask_data))
    ELSE LET tmpdata == Stack(mask_data, infile_data.shape[Len(infile_data.shape)])
         IN  IF BroadcastOK(infile_data.shape, tmpdata.shape)
             THEN Value(Times(infile_data, tmpdata))
             ELSE Raised

\* main, line 155: one plain product, no squeeze and no except clause
ApplyMultiply(applyfile_data, mask_data) ==
    IF BroadcastOK(applyfile_data.shape, mask_data.shape)
    THEN Value(Times(applyfile_data, mask_data))
    ELSE Raised

(***************************************************************************)
(* Input volumes                                                           *)
(***************************************************************************)

\* a loaded image whose voxels are pairwise distinct and positive
Volume(shape) ==
    [shape |-> shape, data |-> [idx \in Indices(shape) |-> 1 + Lin(idx, shape)]]

\* the voxel grid FLIRT resamples onto: the three spatial axes of the reference
Grid(shape) == SubSeq(shape, 1, 3)

\* a warped mask on a grid: 0 on its first z voxels (the face), 1 elsewhere
MaskVolume(grid, z) ==
    [shape |-> grid, data |-> [idx \in Indices(grid) |-> IF Lin(idx, grid) < z THEN 0 ELSE 1]]

Shapes3D == { <<x, y, z>> : x \in 1..MaxExt, y \in 1..MaxExt, z \in 1..MaxExt }
Shapes4D == { s \o <<t>> : s \in Shapes3D, t \in 1..MaxT }
AllShapes == Shapes3D \cup Shapes4D

-----------------------------------------------------------------------------
(***************************************************************************)
(* State                                                                   *)
(***************************************************************************)

VARIABLES
    pc,               \* per invocation: the statement it is about to run
    error,            \* per invocation: the call that raised ("" while none has)
    args,             \* per invocation: force, nocleanup, applyto (<<>>: not given)
    infile,           \* per invocation: the volume stored in the input file
    template_reg_mat, \* per invocation: the locals of deface_image, lines 43-50
    warped_mask,
    template_reg,
    warped_mask_mat,
    disk,             \* temporary directory: path -> 0 (absent) or its last writer
    outdisk,          \* output paths -> what the file holds
    flirt_runs,       \* per invocation: how often FLIRT ran for step A and step B
    xfm_src,          \* per invocation: whose matrix step B applied
    infile_img,       \* per invocation: data of load(infile)
    warped_mask_img,  \* per invocation: data of load(warped_mask) and its writer
    outdata,          \* per invocation: the product of deface_image
    item,             \* per invocation: position of main's loop in args.applyto
    applyfile_img,    \* per invocation: data of load(applyfile)
    apply_outdata,    \* per invocation: the product of main's loop body
    applied,          \* per invocation: the positions whose output main has saved
    subject,          \* the multiplications alone: their operands and results
    mask,
    defaced,
    masked

vars == << pc, error, args, infile, template_reg_mat, warped_mask, template_reg,
           warped_mask_mat, disk, outdisk, flirt_runs, xfm_src, infile_img,
           warped_mask_img, outdata, item, applyfile_img, apply_outdata, applied,
           subject, mask, defaced, masked >>

mulvars == << subject, mask, defaced, masked >>

batchvars == << item, applyfile_img, apply_outdata, applied >>

tmpvars == << template_reg_mat, warped_mask, template_reg, warped_mask_mat >>

datavars == << infile_img, warped_mask_img, outdata >>

\* the invocations that may run side by side on one host
Procs == {1, 2}

Names == 1..NumNames
NoPath == <<0, "">>
TmpPaths == Names \X {"", ".mat", ".nii.gz"}

\* the resolved output path of an invocation, and of an --applyto file
Out(i) == <<"outfile", i, 0>>
ApplyOut(i, f) == <<"applyfile", i, f>>
OutPaths == { Out(i) : i \in Procs } \cup { ApplyOut(i, f) : i \in Procs, f \in 1..NumFiles }

Absent == <<"absent", 0>>
Old == <<"old", 0>>
Defaced(i) == <<"defaced", i>>
Applied(k) == <<"applied", k>>

\* the shapes the whole pipeline is run on: a 3D volume, a 4D series, and a
\* volume with a trailing singleton axis
PipelineShapes ==
    { <<MaxExt, MaxExt, MaxExt>>, <<MaxExt, MaxExt, MaxExt, MaxT>>, <<MaxExt, MaxT, 1>> }

ApplyLists == UNION { [1..n -> 1..NumFiles] : n \in 0..MaxApply }

NoArgs == [force |-> FALSE, nocleanup |-> FALSE, applyto |-> <<>>]

\* the mask FLIRT step B of invocation j writes: on the grid of j's reference
WarpedMaskOf(j) == MaskVolume(Grid(infile[j].shape), 1)

Locals0 ==
    /\ pc = [i \in Procs |-> "initial_checks"]
    /\ error = [i \in Procs |-> ""]
    /\ template_reg_mat = [i \in Procs |-> NoPath]
    /\ warped_mask = [i \in Procs |-> NoPath]
    /\ template_reg = [i \in Procs |-> NoPath]
    /\ warped_mask_mat = [i \in Procs |-> NoPath]
    /\ disk = [p \in TmpPaths |-> 0]
    /\ flirt_runs = [i \in Procs |-> [A |-> 0, B |-> 0]]
    /\ xfm_src = [i \in Procs |-> 0]
    /\ infile_img = [i \in Procs |-> NoArray]
    /\ warped_mask_img = [i \in Procs |-> [src |-> 0, arr |-> NoArray]]
    /\ outdata = [i \in Procs |-> Value(NoArray)]
    /\ item = [i \in Procs |-> 0]
    /\ applyfile_img = [i \in Procs |-> NoArray]
    /\ apply_outdata = [i \in Procs |-> Value(NoArray)]
    /\ applied = [i \in Procs |-> <<>>]

NoMul ==
    /\ subject = NoArray
    /\ mask = NoArray
    /\ defaced = Value(NoArray)
    /\ masked = Value(NoArray)

\* one invocation of main (invocation 1; invocation 2 never starts)
Init ==
    /\ Locals0
    /\ NoMul
    /\ \E a \in [force : BOOLEAN, nocleanup : BOOLEAN, applyto : ApplyLists] :
         args = [i \in Procs |-> IF i = 1 THEN a ELSE NoArgs]
    /\ \E s \in PipelineShapes : infile = [i \in Procs |-> Volume(s)]
    /\ \E pre \in SUBSET ({Out(1)} \cup { ApplyOut(1, f) : f \in 1..NumFiles }) :
         outdisk = [p \in OutPaths |-> IF p \in pre THEN Old ELSE Absent]

-----------------------------------------------------------------------------
(***************************************************************************)
(* deface_image                                                            *)
(***************************************************************************)

\* an exception leaves deface_image and main: nothing catches it
Raise(i, what) ==
    /\ pc' = [pc EXCEPT ![i] = "failed"]
    /\ error' = [error EXCEPT ![i] = what]

Goto(i, next) ==
    /\ pc' = [pc EXCEPT ![i] = next]
    /\ UNCHANGED error

\* pydeface.utils.output_checks: the target may be written when it does not
\* exist or overwriting is forced
output_checks(path, force) == outdisk[path] = Absent \/ force

\* line 38: initial_checks raises when the template or the face mask is missing
InitialChecks(i) ==
    /\ pc[i] = "initial_checks"
    /\ \E found \in BOOLEAN :
         IF found THEN Goto(i, "output_checks") ELSE Raise(i, "initial_checks")
    /\ UNCHANGED << args, infile, tmpvars, disk, outdisk, flirt_runs, xfm_src,
                    datavars, batchvars, mulvars >>

\* a changed line 40: the result of the check is not acted upon
OutputChecksUnheeded(i) ==
    /\ pc[i] = "output_checks"
    /\ Goto(i, "mkstemp_reg_mat")
    /\ UNCHANGED << args, infile, tmpvars, disk, outdisk, flirt_runs, xfm_src,
                    datavars, batchvars, mulvars >>

\* line 40: the output path is resolved before anything is allocated
OutputChecks(i) ==
    /\ pc[i] = "output_checks"
    /\ IF output_checks(Out(i), args[i].force)
       THEN Goto(i, "mkstemp_reg_mat")
       ELSE Raise(i, "output_checks")
    /\ UNCHANGED << args, infile, tmpvars, disk, outdisk, flirt_runs, xfm_src,
                    datavars, batchvars, mulvars >>

\* a changed mkstemp: a name is drawn without looking at the directory
UnusedUnchecked(d) == Names

\* the names tempfile.mkstemp may take: it creates the file exclusively, so only
\* names with no file in the directory
Unused(d) == { n \in Names : d[<<n, "">>] = 0 }

\* a name some invocation has held in one of its locals
Referenced(n) ==
    \E j \in Procs :
        n \in { template_reg_mat[j][1], warped_mask[j][1],
                template_reg[j][1], warped_mask_mat[j][1] }

\* mkstemp draws at random.  Names no invocation has ever held are
\* interchangeable, so of those only the least is drawn; a name that was held
\* and has been removed since is drawn as well.
Drawable ==
    { n \in Unused(disk) :
        \/ Referenced(n)
        \/ \A m \in Unused(disk) : Referenced(m) \/ n <= m }

\* tempfile.mkstemp(): create an empty file under a new name and go on with the
\* path name \o suffix (lines 44 and 46 append to the name mkstemp returned)
Mkstemp(i, at, next, suffix, local) ==
    /\ pc[i] = at
    /\ IF Drawable = {}
       THEN /\ Raise(i, "mkstemp")
            /\ UNCHANGED << disk, local >>
       ELSE \E n \in Drawable :
              /\ disk' = [disk EXCEPT ![<<n, "">>] = i]
              /\ local' = [local EXCEPT ![i] = <<n, suffix>>]
              /\ Goto(i, next)

\* lines 43-44
MkstempTemplateRegMat(i) ==
    /\ Mkstemp(i, "mkstemp_reg_mat", "mkstemp_mask", ".mat", template_reg_mat)
    /\ UNCHANGED << args, infile, warped_mask, template_reg, warped_mask_mat, outdisk,
                    flirt_runs, xfm_src, datavars, batchvars, mulvars >>

\* lines 45-46
MkstempWarpedMask(i) ==
    /\ Mkstemp(i, "mkstemp_mask", "mkstemp_reg", ".nii.gz", warped_mask)
    /\ UNCHANGED << args, infile, template_reg_mat, template_reg, warped_mask_mat,
                    outdisk, flirt_runs, xfm_src, datavars, batchvars, mulvars >>

\* line 49
MkstempTemplateReg(i) ==
    /\ Mkstemp(i, "mkstemp_reg", "mkstemp_mask_mat", "", template_reg)
    /\ UNCHANGED << args, infile, template_reg_mat, warped_mask, warped_mask_mat,
                    outdisk, flirt_runs, xfm_src, datavars, batchvars, mulvars >>

\* line 50
MkstempWarpedMaskMat(i) ==
    /\ Mkstemp(i, "mkstemp_mask_mat", "flirt_A", "", warped_mask_mat)
    /\ UNCHANGED << args, infile, template_reg_mat, warped_mask, template_reg,
                    outdisk, flirt_runs, xfm_src, datavars, batchvars, mulvars >>

\* a changed step A: the failure of FLIRT is noted and the run goes on
FlirtAUnheeded(i) ==
    /\ pc[i] = "flirt_A"
    /\ flirt_runs' = [flirt_runs EXCEPT ![i].A = @ + 1]
    /\ \E ok \in BOOLEAN :
         /\ disk' = IF ok THEN [disk EXCEPT ![template_reg_mat[i]] = i, ![template_reg[i]] = i]
                    ELSE disk
         /\ pc' = [pc EXCEPT ![i] = "flirt_B"]
         /\ error' = IF ok THEN error ELSE [error EXCEPT ![i] = "flirt_A"]
    /\ UNCHANGED << args, infile, tmpvars, outdisk, xfm_src, datavars, batchvars, mulvars >>

\* lines 54-61: FLIRT estimates the transform.  It writes the matrix and the
\* registered template, or fails (having written the matrix or not) and
\* flirt.run() raises.
FlirtA(i) ==
    /\ pc[i] = "flirt_A"
    /\ flirt_runs' = [flirt_runs EXCEPT ![i].A = @ + 1]
    /\ \E ok \in BOOLEAN, wrote \in BOOLEAN :
         IF ok
         THEN /\ wrote
              /\ disk' = [disk EXCEPT ![template_reg_mat[i]] = i, ![template_reg[i]] = i]
              /\ Goto(i, "flirt_B")
         ELSE /\ disk' = IF wrote THEN [disk EXCEPT ![template_reg_mat[i]] = i] ELSE disk
              /\ Raise(i, "flirt_A")
    /\ UNCHANGED << args, infile, tmpvars, outdisk, xfm_src, datavars, batchvars, mulvars >>

\* lines 63-71: FLIRT applies the matrix of step A to the face mask.  It fails
\* when the matrix file is not there, and may fail for reasons of its own.
FlirtB(i) ==
    /\ pc[i] = "flirt_B"
    /\ flirt_runs' = [flirt_runs EXCEPT ![i].B = @ + 1]
    /\ \E ok \in BOOLEAN :
         IF ok /\ disk[template_reg_mat[i]] # 0
         THEN /\ xfm_src' = [xfm_src EXCEPT ![i] = disk[template_reg_mat[i]]]
              /\ disk' = [disk EXCEPT ![warped_mask[i]] = i, ![warped_mask_mat[i]] = i]
              /\ Goto(i, "load")
         ELSE /\ Raise(i, "flirt_B")
              /\ UNCHANGED << disk, xfm_src >>
    /\ UNCHANGED << args, infile, tmpvars, outdisk, datavars, batchvars, mulvars >>

\* lines 74-75 and the get_data() calls of line 77: both volumes are read
\* into memory; the mask is whatever the file at warped_mask holds
Load(i) ==
    /\ pc[i] = "load"
    /\ IF disk[warped_mask[i]] = 0
       THEN /\ Raise(i, "load")
            /\ UNCHANGED << infile_img, warped_mask_img >>
       ELSE /\ infile_img' = [infile_img EXCEPT ![i] = infile[i]]
            /\ warped_mask_img' =
                 [warped_mask_img EXCEPT
                    ![i] = [src |-> disk[warped_mask[i]],
                            arr |-> WarpedMaskOf(disk[warped_mask[i]])]]
            /\ Goto(i, "multiply")
    /\ UNCHANGED << args, infile, tmpvars, disk, outdisk, flirt_runs, xfm_src, outdata,
                    batchvars, mulvars >>

\* lines 76-83
Multiply(i) ==
    /\ pc[i] = "multiply"
    /\ outdata' = [outdata EXCEPT ![i] = DefaceMultiply(infile_img[i], warped_mask_img[i].arr)]
    /\ IF outdata'[i].err THEN Raise(i, "multiply") ELSE Goto(i, "save")
    /\ UNCHANGED << args, infile, tmpvars, disk, outdisk, flirt_runs, xfm_src, infile_img,
                    warped_mask_img, batchvars, mulvars >>

\* lines 85-87: the product is written to the output path, or the write fails
Save(i) ==
    /\ pc[i] = "save"
    /\ \E ok \in BOOLEAN :
         IF ok
         THEN /\ outdisk' = [outdisk EXCEPT ![Out(i)] = Defaced(i)]
              /\ Goto(i, "cleanup")
         ELSE /\ Raise(i, "save")
              /\ UNCHANGED outdisk
    /\ UNCHANGED << args, infile, tmpvars, disk, flirt_runs, xfm_src, datavars,
                    batchvars, mulvars >>

\* os.remove(path): the file goes, or FileNotFoundError is raised
Remove(i, path, next) ==
    IF disk[path] = 0
    THEN /\ Raise(i, "remove")
         /\ UNCHANGED disk
    ELSE /\ disk' = [disk EXCEPT ![path] = 0]
         /\ Goto(i, next)

\* a changed cleanup: the warped mask file is left in place
CleanupKeepsMask(i) ==
    /\ pc[i] = "cleanup"
    /\ Goto(i, IF args[i].nocleanup THEN "returned" ELSE "rm_template_reg")
    /\ UNCHANGED << args, infile, tmpvars, disk, outdisk, flirt_runs, xfm_src, datavars,
                    batchvars, mulvars >>

\* lines 89-92: with --nocleanup nothing is removed; else the warped mask goes first
Cleanup(i) ==
    /\ pc[i] = "cleanup"
    /\ IF args[i].nocleanup
       THEN /\ Goto(i, "returned")
            /\ UNCHANGED disk
       ELSE Remove(i, warped_mask[i], "rm_template_reg")
    /\ UNCHANGED << args, infile, tmpvars, outdisk, flirt_runs, xfm_src, datavars,
                    batchvars, mulvars >>

\* line 93
RemoveTemplateReg(i) ==
    /\ pc[i] = "rm_template_reg"
    /\ Remove(i, template_reg[i], "rm_template_reg_mat")
    /\ UNCHANGED << args, infile, tmpvars, outdisk, flirt_runs, xfm_src, datavars,
                    batchvars, mulvars >>

\* lines 94-97: the last removal; deface_image returns warped_mask_img
RemoveTemplateRegMat(i) ==
    /\ pc[i] = "rm_template_reg_mat"
    /\ Remove(i, template_reg_mat[i], "returned")
    /\ UNCHANGED << args, infile, tmpvars, outdisk, flirt_runs, xfm_src, datavars,
                    batchvars, mulvars >>

DefaceImage(i) ==
    \/ InitialChecks(i)
    \/ OutputChecks(i)
    \/ MkstempTemplateRegMat(i)
    \/ MkstempWarpedMask(i)
    \/ MkstempTemplateReg(i)
    \/ MkstempWarpedMaskMat(i)
    \/ FlirtA(i)
    \/ FlirtB(i)
    \/ Load(i)
    \/ Multiply(i)
    \/ Save(i)
    \/ Cleanup(i)
    \/ RemoveTemplateReg(i)
    \/ RemoveTemplateRegMat(i)

-----------------------------------------------------------------------------
(***************************************************************************)
(* main: the --applyto loop                                                *)
(***************************************************************************)

\* the volumes an --applyto file may hold
ApplyVolumes == { Volume(s) : s \in PipelineShapes }

\* lines 148-153: deface_image has returned; the loop starts if --applyto was given
ApplyBegin(i) ==
    /\ pc[i] = "returned"
    /\ IF args[i].applyto = <<>>
       THEN /\ Goto(i, "finished")
            /\ UNCHANGED item
       ELSE /\ Goto(i, "apply_load")
            /\ item' = [item EXCEPT ![i] = 1]
    /\ UNCHANGED << args, infile, tmpvars, disk, outdisk, flirt_runs, xfm_src, datavars,
                    applyfile_img, apply_outdata, applied, mulvars >>

\* a changed line 154: an unreadable file is skipped and the loop goes on
ApplyLoadSkips(i) ==
    /\ pc[i] = "apply_load"
    /\ \/ /\ item[i] < Len(args[i].applyto)
          /\ item' = [item EXCEPT ![i] = @ + 1]
          /\ UNCHANGED << pc, error, applyfile_img >>
       \/ \E v \in ApplyVolumes :
            /\ applyfile_img' = [applyfile_img EXCEPT ![i] = v]
            /\ Goto(i, "apply_multiply")
            /\ UNCHANGED item
    /\ UNCHANGED << args, infile, tmpvars, disk, outdisk, flirt_runs, xfm_src, datavars,
                    apply_outdata, applied, mulvars >>

\* line 154: load(applyfile) and its get_data(), or the file cannot be read
ApplyLoad(i) ==
    /\ pc[i] = "apply_load"
    /\ \/ /\ Raise(i, "apply_load")
          /\ UNCHANGED applyfile_img
       \/ \E v \in ApplyVolumes :
            /\ applyfile_img' = [applyfile_img EXCEPT ![i] = v]
            /\ Goto(i, "apply_multiply")
    /\ UNCHANGED << args, infile, tmpvars, disk, outdisk, flirt_runs, xfm_src, datavars,
                    item, apply_outdata, applied, mulvars >>

\* line 155
ApplyTimes(i) ==
    /\ pc[i] = "apply_multiply"
    /\ apply_outdata' =
         [apply_outdata EXCEPT ![i] = ApplyMultiply(applyfile_img[i], warped_mask_img[i].arr)]
    /\ IF apply_outdata'[i].err
       THEN Raise(i, "apply_multiply")
       ELSE Goto(i, "apply_output_checks")
    /\ UNCHANGED << args, infile, tmpvars, disk, outdisk, flirt_runs, xfm_src, datavars,
                    item, applyfile_img, applied, mulvars >>

\* line 158: output_checks(applyfile), without force
ApplyOutputChecks(i) ==
    /\ pc[i] = "apply_output_checks"
    /\ IF output_checks(ApplyOut(i, args[i].applyto[item[i]]), FALSE)
       THEN Goto(i, "apply_save")
       ELSE Raise(i, "apply_output_checks")
    /\ UNCHANGED << args, infile, tmpvars, disk, outdisk, flirt_runs, xfm_src, datavars,
                    batchvars, mulvars >>

\* what the loop does once an item is saved (lines 153, 162)
AfterItem(i) ==
    IF item[i] < Len(args[i].applyto)
    THEN /\ item' = [item EXCEPT ![i] = @ + 1]
         /\ Goto(i, "apply_load")
    ELSE /\ UNCHANGED item
         /\ Goto(i, "finished")

\* lines 159-160: the product is written, or the write fails
ApplySave(i) ==
    /\ pc[i] = "apply_save"
    /\ \/ /\ Raise(i, "apply_save")
          /\ UNCHANGED << outdisk, applied, item >>
       \/ /\ outdisk' = [outdisk EXCEPT ![ApplyOut(i, args[i].applyto[item[i]])] = Applied(item[i])]
          /\ applied' = [applied EXCEPT ![i] = Append(@, item[i])]
          /\ AfterItem(i)
    /\ UNCHANGED << args, infile, tmpvars, disk, flirt_runs, xfm_src, datavars,
                    applyfile_img, apply_outdata, mulvars >>

ApplyTo(i) ==
    \/ ApplyBegin(i)
    \/ ApplyLoad(i)
    \/ ApplyTimes(i)
    \/ ApplyOutputChecks(i)
    \/ ApplySave(i)

Next == DefaceImage(1) \/ ApplyTo(1)

Spec == Init /\ [][Next]_vars

-----------------------------------------------------------------------------
(***************************************************************************)
(* Two invocations of deface_image side by side on one host                *)
(***************************************************************************)

InitConc ==
    /\ Locals0
    /\ NoMul
    /\ args \in [Procs -> [force : {FALSE}, nocleanup : BOOLEAN, applyto : {<<>>}]]
    /\ infile = [i \in Procs |-> Volume(IF i = 1 THEN <<MaxExt, MaxExt, MaxExt>>
                                                 ELSE <<MaxExt, MaxExt, MaxExt, MaxT>>)]
    /\ outdisk = [p \in OutPaths |-> Absent]

NextConc == \E i \in Procs : DefaceImage(i)

SpecConc == InitConc /\ [][NextConc]_vars

-----------------------------------------------------------------------------
(***************************************************************************)
(* The two multiplications alone, over every bounded subject and mask      *)
(***************************************************************************)

Pending == Value(NoArray)

InitMul ==
    /\ Locals0
    /\ args = [i \in Procs |-> NoArgs]
    /\ infile = [i \in Procs |-> NoArray]
    /\ outdisk = [p \in OutPaths |-> Absent]
    /\ \E s \in AllShapes, z \in 0..MaxZero :
         /\ subject = Volume(s)
         /\ mask = MaskVolume(Grid(s), z)
    /\ defaced = Pending
    /\ masked = Pending

pipevars == << pc, error, args, infile, tmpvars, disk, outdisk, flirt_runs, xfm_src,
               datavars, batchvars >>

\* the multiplication of deface_image on (subject, mask)
DefaceTimes ==
    /\ defaced = Pending
    /\ defaced' = DefaceMultiply(subject, mask)
    /\ UNCHANGED << subject, mask, masked, pipevars >>

\* the multiplication of main's loop on the same pair
MaskTimes ==
    /\ masked = Pending
    /\ masked' = ApplyMultiply(subject, mask)
    /\ UNCHANGED << subject, mask, defaced, pipevars >>

NextMul == DefaceTimes \/ MaskTimes

SpecMul == InitMul /\ [][NextMul]_vars

-----------------------------------------------------------------------------
(***************************************************************************)
(* Claims about the multiplications (SpecMul)                              *)
(***************************************************************************)

\* C2: for every subject shape (3D, or 4D with trailing length T >= 1) and a 3D
\* mask on the subject's grid, the data deface_image produces has exactly the
\* subject's original, non-collapsed shape, on the direct path and on the
\* fallback path.
C2_ShapePreserved ==
    (defaced # Pending /\ ~defaced.err) => defaced.arr.shape = subject.shape

\* C3: for every subject of shape (X,Y,Z,T) and mask of shape (X,Y,Z), equal
\* extents included, deface_image yields Output[x,y,z,t] =
\* Subject[x,y,z,t] * Mask[x,y,z] for every voxel and every t.
C3_BroadcastCorrect ==
    (defaced # Pending /\ Len(subject.shape) = 4) =>
        /\ ~defaced.err
        /\ DOMAIN defaced.arr.data = Indices(subject.shape)
        /\ \A idx \in Indices(subject.shape) :
             defaced.arr.data[idx] = subject.data[idx] * mask.data[SubSeq(idx, 1, 3)]

\* C4: main's loop multiplies under the same dimensionality policy as
\* deface_image: on every pair the loop's result (value or error) equals what
\* deface_image's multiplication yields for that pair.
C4_SamePolicy ==
    (defaced # Pending /\ masked # Pending) => masked = defaced

\* C10: for every subject and mask of shape (X,Y,Z), extents of 1 included,
\* deface_image does not fail and its output is Subject * Mask element-wise,
\* of shape (X,Y,Z).
C10_DirectCorrect ==
    (defaced # Pending /\ Len(subject.shape) = 3) =>
        /\ ~defaced.err
        /\ defaced.arr.shape = subject.shape
        /\ DOMAIN defaced.arr.data = Indices(subject.shape)
        /\ \A idx \in Indices(subject.shape) :
             defaced.arr.data[idx] = subject.data[idx] * mask.data[idx]

-----------------------------------------------------------------------------
(***************************************************************************)
(* Claims about one run of main (Spec)                                     *)
(***************************************************************************)

ApplyErrors == {"apply_load", "apply_multiply", "apply_output_checks", "apply_save"}

\* deface_image has returned normally to main
Returned(i) ==
    \/ pc[i] \in {"returned", "apply_load", "apply_multiply", "apply_output_checks",
                  "apply_save", "finished"}
    \/ pc[i] = "failed" /\ error[i] \in ApplyErrors

\* main is in its --applyto loop
InBatch(i) == pc[i] \in {"apply_load", "apply_multiply", "apply_output_checks", "apply_save"}

\* C1: after a successful run of deface_image with cleanup enabled the
\* registered-template file, the matrix file of step A and the by-product
\* matrix file of step B are all absent from disk.
C1_ByProductsRemoved ==
    \A i \in Procs :
        (Returned(i) /\ ~args[i].nocleanup) =>
            /\ disk[template_reg[i]] = 0
            /\ disk[template_reg_mat[i]] = 0
            /\ disk[warped_mask_mat[i]] = 0

NoTemporaries(i) ==
    /\ template_reg_mat[i] = NoPath
    /\ warped_mask[i] = NoPath
    /\ template_reg[i] = NoPath
    /\ warped_mask_mat[i] = NoPath
    /\ \A p \in TmpPaths : disk[p] # i

\* C6: when the output path exists and overwriting is not permitted,
\* deface_image fails before any registration call and without side effects:
\* FLIRT never runs, no temporary file is created, the existing output is
\* unchanged.
C6_CollisionFailsFirst ==
    \A i \in Procs :
        /\ (outdisk[Out(i)] = Old /\ ~args[i].force
              /\ pc[i] \notin {"initial_checks", "output_checks"}) =>
               /\ pc[i] = "failed"
               /\ error[i] \in {"initial_checks", "output_checks"}
        /\ error[i] = "output_checks" =>
               /\ pc[i] = "failed"
               /\ ~args[i].force
               /\ outdisk[Out(i)] = Old
               /\ flirt_runs[i] = [A |-> 0, B |-> 0]
               /\ NoTemporaries(i)

C6_Witness ==
    /\ pc[1] = "failed"
    /\ error[1] = "output_checks"
    /\ outdisk[Out(1)] = Old

\* C7: when FLIRT fails at step A the run aborts: step A has run once, step B
\* never, no output file is created, no warped-mask file exists, and no
\* --applyto item is processed.
C7_StepAFailureAborts ==
    \A i \in Procs :
        /\ flirt_runs[i].A <= 1
        /\ error[i] = "flirt_A" =>
               /\ pc[i] = "failed"
               /\ flirt_runs[i] = [A |-> 1, B |-> 0]
               /\ outdisk[Out(i)] # Defaced(i)
               /\ disk[warped_mask[i]] = 0
               /\ item[i] = 0
               /\ applied[i] = <<>>
               /\ \A f \in 1..NumFiles : outdisk[ApplyOut(i, f)] \in {Absent, Old}

C7_Witness ==
    /\ error[1] = "flirt_A"
    /\ args[1].applyto # <<>>
    /\ disk[template_reg_mat[1]] = 1

\* C8: the --applyto loop processes the paths strictly in the order given and
\* only after the primary output is written; when load, multiplication, output
\* path resolution or save fails for item k, nothing after k is processed or
\* written, and the outputs written for the items before k stay on disk
\* unchanged.
C8_BatchInOrder ==
    \A i \in Procs :
        /\ applied[i] = [k \in 1..Len(applied[i]) |-> k]
        /\ item[i] > 0 => outdisk[Out(i)] = Defaced(i)
        /\ InBatch(i) => Len(applied[i]) = item[i] - 1
        /\ (pc[i] = "failed" /\ error[i] \in ApplyErrors) => Len(applied[i]) = item[i] - 1
        /\ pc[i] = "finished" => Len(applied[i]) = Len(args[i].applyto)
        /\ \A k \in 1..Len(applied[i]) :
             outdisk[ApplyOut(i, args[i].applyto[k])] = Applied(k)
        /\ \A f \in 1..NumFiles :
             outdisk[ApplyOut(i, f)] \in
                 {Absent, Old} \cup { Applied(k) : k \in 1..Len(applied[i]) }

C8_Witness ==
    /\ pc[1] = "failed"
    /\ error[1] \in ApplyErrors
    /\ item[1] = 2
    /\ applied[1] = <<1>>

-----------------------------------------------------------------------------
(***************************************************************************)
(* Claims about two concurrent invocations (SpecConc)                      *)
(***************************************************************************)

\* the temporary paths invocation i has removed itself (lines 92-94)
Removed(i) ==
    IF pc[i] = "rm_template_reg" THEN {warped_mask[i]}
    ELSE IF pc[i] = "rm_template_reg_mat" THEN {warped_mask[i], template_reg[i]}
    ELSE IF pc[i] = "returned" /\ ~args[i].nocleanup
         THEN {warped_mask[i], template_reg[i], template_reg_mat[i]}
    ELSE {}

\* the temporary paths invocation i is using: allocated and not removed by it
InUse(i) ==
    ({template_reg_mat[i], warped_mask[i], template_reg[i], warped_mask_mat[i]}
        \ {NoPath}) \ Removed(i)

\* two locals of one invocation that are both set name different paths
Distinct(p, q) == (p # NoPath /\ q # NoPath) => p # q

\* C9: for two invocations of deface_image running concurrently, in every
\* interleaving, the temporary paths they are using (matrix of step A with
\* suffix .mat, warped mask with suffix .nii.gz, registered template, matrix of
\* step B) are disjoint and the four paths of one invocation are pairwise
\* distinct, so no invocation reads, overwrites or deletes a file of the other.
C9_TemporariesDisjoint ==
    /\ \A i \in Procs :
         /\ Distinct(template_reg_mat[i], warped_mask[i])
         /\ Distinct(template_reg_mat[i], template_reg[i])
         /\ Distinct(template_reg_mat[i], warped_mask_mat[i])
         /\ Distinct(warped_mask[i], template_reg[i])
         /\ Distinct(warped_mask[i], warped_mask_mat[i])
         /\ Distinct(template_reg[i], warped_mask_mat[i])
         /\ template_reg_mat[i] # NoPath => template_reg_mat[i][2] = ".mat"
         /\ warped_mask[i] # NoPath => warped_mask[i][2] = ".nii.gz"
         /\ \A p \in InUse(i) : disk[p] \in {0, i}
         /\ xfm_src[i] \in {0, i}
         /\ warped_mask_img[i].src \in {0, i}
         /\ pc[i] = "flirt_B" => disk[template_reg_mat[i]] = i
         /\ pc[i] = "load" => disk[warped_mask[i]] = i
         /\ error[i] \notin {"load", "remove", "mkstemp"}
    /\ \A i, j \in Procs : i # j => InUse(i) \cap InUse(j) = {}

\* both invocations hold their four paths at once, one of them having taken
\* the name the other removed
C9_Witness ==
    /\ pc[1] = "returned"
    /\ ~args[1].nocleanup
    /\ pc[2] = "load"
    /\ \E p \in Removed(1) : p[1] \in { q[1] : q \in InUse(2) }

=============================================================================
